---- MODULE Spec2Model ----
(***************************************************************************)
(* Model of the Letta streaming pipe: src/letta.py (the synchronous        *)
(* urllib3 variant, retried with tenacity, an async generator of text      *)
(* increments) and src/letta_improved.py (the aiohttp variant, which       *)
(* returns the joined answer).  One run of Pipe.pipe is modelled from the  *)
(* call to its terminal state.                                             *)
(*                                                                         *)
(* Wire text is a sequence of tokens: the six characters of the prefix     *)
(* "data: ", the newline, and one token for each lexical unit of a         *)
(* payload ("{", the body of a JSON object, "}", "[DONE]", a number).      *)
(* Text handed to the caller or the sink is a TLA+ string.                 *)
(***************************************************************************)
EXTENDS Naturals, Sequences, FiniteSets, TLC

VARIABLES
    variant,          \* "sync" = src/letta.py, "async" = src/letta_improved.py
    valves,           \* self.valves
    userIn,           \* __user__["valves"], the caller's user-level toggles
    emitter,          \* __event_emitter__ is not None
    history,          \* body["messages"], the conversation history
    logOK,            \* RESPONSE_LOG_PATH can be opened for appending
    userOk,           \* __user__ is a mapping (it is not None)
    user_valves,      \* the user valves the run resolved
    display_events,   \* display_events of letta.py pipe()
    state,            \* idle, requesting, streaming, completed, failed, cancelled
    payload,          \* the JSON body of the outbound request
    suspended,        \* letta.py: generator() is suspended at yield content + "\n"
    attempts,         \* request attempts made so far
    waited,           \* seconds tenacity slept between the attempts, in order
    lastExc,          \* what the last failed attempt raised, "none" once one succeeds
    errKind,          \* type(e).__name__ of the terminal error, or "none"
    failedIn,         \* state the run was in when it failed, or "none"
    stream,           \* logical byte stream of the established response
    wire,             \* bytes of the response not yet delivered
    chunksRead,       \* transport chunks delivered so far
    pieces,           \* letta.py: rest of decoded_chunk.split("\n\n")
    buf,              \* letta_improved.py: aiohttp StreamReader buffer
    response_content, \* letta_improved.py: response_content
    out,              \* everything delivered to the sink and the caller, in order
    log,              \* type labels of the records in RESPONSE_LOG_PATH
    fileExists,       \* RESPONSE_LOG_PATH exists
    initPc,           \* where each caller of _init_response_log is
    conn,             \* "none", "open", "released"
    status,           \* HTTP status of the response established, or "none"
    classified,       \* frames that reached json.loads, in order
    doneSeen          \* the unit data: [DONE] has been read from the stream

vars == <<variant, valves, userIn, emitter, history, logOK, userOk, user_valves,
          display_events, state, payload, suspended, attempts, waited, fileExists,
          initPc, lastExc, errKind, failedIn, stream, wire, chunksRead, pieces, buf,
          response_content, out, log, conn, status, classified, doneSeen>>

-----------------------------------------------------------------------------
(* Bounds and program constants *)

MaxChunks == 2          \* transport chunks one response is cut into
MaxHistory == 2         \* messages of a conversation history
MaxRecords == 3         \* records written to the log file outside a run
MaxAttempts == 3        \* stop_after_attempt(3)
Multiplier == 1         \* wait_exponential(multiplier=1, ...)
MinWait == 4            \* wait_exponential(..., min=4, ...)
MaxWait == 10           \* wait_exponential(..., max=10)
Initialisers == 2       \* Pipe objects that share RESPONSE_LOG_PATH
PrefixLen == 6          \* chunk[6:]

NL == "\n"
Absent == "<absent>"    \* a key the JSON object does not have

DataPrefix == <<"d", "a", "t", "a", ":", " ">>
DoneMarker == DataPrefix \o <<"[DONE]">>
Delimiter == <<NL, NL>>

-----------------------------------------------------------------------------
(* Text helpers: str.startswith, str.split("\n\n"), str.strip, "\n".join *)

StartsWith(s, p) == Len(s) >= Len(p) /\ SubSeq(s, 1, Len(p)) = p

Drop(s, n) == SubSeq(s, n + 1, Len(s))

DelimAt(s) ==
    { i \in 1..(Len(s) - 1) : s[i] = NL /\ s[i + 1] = NL }

FirstOf(S) == CHOOSE i \in S : \A j \in S : i <= j

RECURSIVE Split(_)
Split(s) ==
    IF DelimAt(s) = {} THEN <<s>>
    ELSE LET i == FirstOf(DelimAt(s))
         IN <<SubSeq(s, 1, i - 1)>> \o Split(Drop(s, i + 1))

IsSpace(t) == t \in {NL, " "}

RECURSIVE LStrip(_)
LStrip(s) == IF s # <<>> /\ IsSpace(Head(s)) THEN LStrip(Tail(s)) ELSE s

RECURSIVE RStrip(_)
RStrip(s) ==
    IF s # <<>> /\ IsSpace(s[Len(s)]) THEN RStrip(SubSeq(s, 1, Len(s) - 1)) ELSE s

Strip(s) == RStrip(LStrip(s))

RECURSIVE Join(_)
Join(list) ==
    IF list = <<>> THEN ""
    ELSE IF Len(list) = 1 THEN list[1]
    ELSE list[1] \o NL \o Join(Tail(list))

-----------------------------------------------------------------------------
(* json.loads over the payload tokens.  A JSON object is "{", one body     *)
(* token, "}"; the body token stands for its key/value pairs.  Surrounding *)
(* whitespace is accepted, as json.loads accepts it.                       *)

ObjectBodies ==
    {"amHi", "amYo", "amEmpty", "amNoContent", "usage", "rmStep", "rmNoStep",
     "tool", "noType"}

MessageTypeOf(b) ==
    CASE b \in {"amHi", "amYo", "amEmpty", "amNoContent"} -> "assistant_message"
      [] b = "usage" -> "usage_statistics"
      [] b \in {"rmStep", "rmNoStep"} -> "reasoning_message"
      [] b = "tool" -> "tool_call_message"
      [] OTHER -> Absent

ContentOf(b) ==
    CASE b = "amHi" -> "Hi"
      [] b = "amYo" -> "Yo"
      [] b = "amEmpty" -> ""
      [] b \in {"rmStep", "rmNoStep"} -> "why"
      [] OTHER -> Absent

StepOf(b) == IF b = "rmStep" THEN "s1" ELSE Absent

JsonError == [ok |-> FALSE, isdict |-> FALSE, message_type |-> Absent,
              content |-> Absent, step |-> Absent]

JsonNumber == [ok |-> TRUE, isdict |-> FALSE, message_type |-> Absent,
               content |-> Absent, step |-> Absent]

JsonLoads(s) ==
    LET t == Strip(s)
    IN IF Len(t) = 3 /\ t[1] = "{" /\ t[3] = "}" /\ t[2] \in ObjectBodies
       THEN [ok |-> TRUE, isdict |-> TRUE, message_type |-> MessageTypeOf(t[2]),
             content |-> ContentOf(t[2]), step |-> StepOf(t[2])]
       ELSE IF t = <<"7">> THEN JsonNumber
       ELSE JsonError

\* dict.get(key, default)
Get(v, default) == IF v = Absent THEN default ELSE v

-----------------------------------------------------------------------------
(* What one unit of input (a piece of split("\n\n") in letta.py, a line in *)
(* letta_improved.py) is taken for: the chain of tests of both loops.      *)

Frame(kind, content, step) == [kind |-> kind, content |-> content, step |-> step]

IsDataFrame(unit) == StartsWith(unit, DataPrefix)

IsDoneMarker(unit) == unit = DoneMarker

\* variant: the handler lets the decode error propagate
CaughtNowhere(exc) == FALSE

\* except json.JSONDecodeError: the exception types the frame loop absorbs
CaughtLocally(exc) == exc = "JSONDecodeError"

\* variant: every type that is neither assistant nor reasoning counts as usage
IsUsageOrOther(message_type) ==
    message_type \notin {"assistant_message", "reasoning_message"}

\* elif message_type == "usage_statistics"
IsUsage(message_type) == message_type = "usage_statistics"

Classify(unit) ==
    IF Strip(unit) = <<>> \/ ~IsDataFrame(unit) THEN Frame("discard", "", Absent)
    ELSE IF IsDoneMarker(unit) THEN Frame("done", "", Absent)
    ELSE LET j == JsonLoads(Drop(unit, PrefixLen))
         IN IF ~j.ok THEN Frame("JSONDecodeError", "", Absent)
            ELSE IF ~j.isdict THEN Frame("AttributeError", "", Absent)
            ELSE IF j.message_type = "assistant_message"
                 THEN Frame("assistant_message", Get(j.content, ""), Absent)
            ELSE IF IsUsage(j.message_type)
                 THEN Frame("usage_statistics", "", Absent)
            ELSE IF j.message_type = "reasoning_message"
                 THEN Frame("reasoning_message", Get(j.content, ""),
                            Get(j.step, "unknown"))
            ELSE Frame("unrecognized", "", Absent)

IsClassified(f) == f.kind \notin {"discard", "done"}

-----------------------------------------------------------------------------
(* The response bodies the backend may send *)

Obj(b) == <<"{", b, "}">>
Data(json) == DataPrefix \o json
KeepAlive == <<":", "k">>

RECURSIVE Wire(_)
Wire(frames) ==
    IF frames = <<>> THEN <<>>
    ELSE Head(frames) \o Delimiter \o Wire(Tail(frames))

Streams ==
    { Wire(<<Data(Obj("amHi")), DoneMarker>>),
      Wire(<<Data(Obj("amHi")), DoneMarker, Data(Obj("amYo"))>>),
      Wire(<<Data(<<"{", "amHi">>), Data(Obj("amHi")), DoneMarker>>),
      Wire(<<Data(Obj("usage")), Data(Obj("amHi"))>>),
      Wire(<<Data(Obj("rmNoStep")), Data(Obj("rmStep"))>>),
      Wire(<<Data(Obj("amHi")), Data(Obj("amYo"))>>),
      Wire(<<Data(<<"7">>), Data(Obj("amHi"))>>),
      Wire(<<KeepAlive, Data(Obj("amEmpty")), Data(Obj("tool"))>>),
      Wire(<<Data(Obj("amNoContent")), Data(Obj("noType"))>>),
      Wire(<<<<" ">> \o Data(Obj("amYo"))>>),
      Wire(<<Data(Obj("amHi"))>>) \o DoneMarker }

\* HTTP statuses a response may be established with
Success == "200"

ErrorStatuses == {"422", "500"}

Statuses == {Success} \cup ErrorStatuses

\* the body of an error response: a JSON document, or text that holds a frame
ErrorBodies == { Obj("noType"), Wire(<<Data(Obj("amHi"))>>) }

BodiesOf(st) == IF st = Success THEN Streams ELSE ErrorBodies

-----------------------------------------------------------------------------
(* Configuration and the initial state *)

\* letta.py Valves; letta_improved.py Valves has DEV_MODE and SAVE_RESPONSES only.
\* DEV_MODE and DISPLAY_EVENTS vary; the other toggles keep their default, True.
ValvesOf(v) ==
    IF v = "sync"
    THEN [DEV_MODE : BOOLEAN, DISPLAY_EVENTS : BOOLEAN, SHOW_REASONING : {TRUE},
          SHOW_USAGE_STATS : {TRUE}, LOG_RAW_CHUNKS : {TRUE},
          LOG_PARSED_CHUNKS : {TRUE}, SAVE_RESPONSES : {TRUE}]
    ELSE [DEV_MODE : BOOLEAN, DISPLAY_EVENTS : {TRUE}, SHOW_REASONING : {TRUE},
          SHOW_USAGE_STATS : {TRUE}, LOG_RAW_CHUNKS : {TRUE},
          LOG_PARSED_CHUNKS : {TRUE}, SAVE_RESPONSES : {TRUE}]

\* UserValves(): every toggle defaults to True
DefaultUserValves ==
    [DISPLAY_EVENTS |-> TRUE, SHOW_REASONING |-> TRUE, SHOW_USAGE_STATS |-> TRUE]

\* letta_improved.py never reads __user__["valves"]
UserValvesOf(v) ==
    IF v = "sync"
    THEN [DISPLAY_EVENTS : BOOLEAN, SHOW_REASONING : BOOLEAN,
          SHOW_USAGE_STATS : BOOLEAN]
    ELSE {DefaultUserValves}

\* the body of a request before it is built
NoPayload == [messages |-> <<>>, stream_steps |-> FALSE, stream_tokens |-> FALSE]

\* a run before pipe() is called
Start ==
    /\ user_valves = DefaultUserValves
    /\ payload = NoPayload
    /\ suspended = FALSE
    /\ waited = <<>>
    /\ display_events = FALSE
    /\ state = "idle"
    /\ attempts = 0
    /\ lastExc = "none"
    /\ errKind = "none"
    /\ failedIn = "none"
    /\ stream = <<>>
    /\ wire = <<>>
    /\ chunksRead = 0
    /\ pieces = <<>>
    /\ buf = <<>>
    /\ response_content = <<>>
    /\ out = <<>>
    /\ log = <<>>
    /\ conn = "none"
    /\ status = "none"
    /\ classified = <<>>
    /\ doneSeen = FALSE

\* the log file is there and no Pipe object is being constructed
LogReady ==
    /\ fileExists = TRUE
    /\ initPc = [i \in 1..Initialisers |-> "done"]

\* the history test_letta_dev.py sends: one user message
TestHistory == <<[role |-> "user", content |-> "q1"]>>

Init ==
    /\ variant \in {"sync", "async"}
    /\ valves \in ValvesOf(variant)
    /\ userIn \in UserValvesOf(variant)
    /\ emitter \in BOOLEAN
    /\ history = TestHistory
    /\ logOK = TRUE
    /\ userOk = TRUE
    /\ LogReady
    /\ Start

-----------------------------------------------------------------------------
(* Deliveries: to the sink (__event_emitter__) and to the caller *)

Ev(to, type, text, step, done) ==
    [to |-> to, type |-> type, text |-> text, step |-> step, done |-> done]

SinkEv(type, text, step, done) == Ev("sink", type, text, step, done)

\* letta.py _log_response: one record, when DEV_MODE and SAVE_RESPONSES
LogResponse(l, type) ==
    IF valves.DEV_MODE /\ valves.SAVE_RESPONSES THEN Append(l, type) ELSE l

\* variant: _dev_event forwards whether or not DEV_MODE is set
DevEventUngated(o, type, text, step) ==
    IF emitter THEN Append(o, SinkEv(type, text, step, FALSE)) ELSE o

\* letta.py _dev_event: nothing unless DEV_MODE; then the emitter, if any
DevEvent(o, type, text, step) ==
    IF valves.DEV_MODE /\ emitter THEN Append(o, SinkEv(type, text, step, FALSE))
    ELSE o

\* letta_improved.py emit_status
EmitStatus(o, level, done) ==
    IF emitter THEN Append(o, SinkEv("status", level, Absent, done)) ELSE o

\* variant: the event overtakes the deliveries made before it
EmitMessageFirst(o, message) ==
    IF emitter THEN <<SinkEv("message", message, Absent, FALSE)>> \o o ELSE o

\* letta_improved.py emit_message
EmitMessage(o, message) ==
    IF emitter THEN Append(o, SinkEv("message", message, Absent, FALSE)) ELSE o

\* letta.py: yield content + "\n"
Increment(content) == content \o NL

\* letta.py: the chunk yielded by the except branch of generator()
ErrorChunk(kind) == "chat:error " \o kind

\* variant: the response is not released when the run ends
KeepOpen(c) == c

\* finally: response.release_conn() / leaving "async with session.post(...)"
Release(c) == IF c = "open" THEN "released" ELSE c

\* open(RESPONSE_LOG_PATH, 'a') raises in _log_response
LogFails == valves.DEV_MODE /\ valves.SAVE_RESPONSES /\ ~logOK

\* an exception raised to the caller of pipe() or of the generator
Raise(o, kind) == Append(o, Ev("caller", "raise", kind, Absent, FALSE))

-----------------------------------------------------------------------------
(* The outbound request body: _format_messages / format_messages, [-1] *)

SupportedRoles == {"user", "system", "assistant"}

Roles == SupportedRoles \cup {"tool"}

HistoryContents == {"q1", "q2"}

Histories ==
    UNION { [1..n -> [role : Roles, content : HistoryContents]] : n \in 1..MaxHistory }

FormatMsg(msg) ==
    [role |-> IF msg.role = "system" THEN "system" ELSE "user",
     content |-> msg.content]

Hello == [role |-> "user", content |-> "Hello"]

\* letta.py formats every message; letta_improved.py skips the roles it does
\* not support and puts a greeting in an empty list
FormatMessages(v, messages) ==
    IF v = "sync"
    THEN [i \in 1..Len(messages) |-> FormatMsg(messages[i])]
    ELSE LET kept == SelectSeq(messages, LAMBDA m : m.role \in SupportedRoles)
             formatted == [i \in 1..Len(kept) |-> FormatMsg(kept[i])]
         IN IF formatted = <<>> THEN <<Hello>> ELSE formatted

\* messages[-1]
LastMessage(messages) == messages[Len(messages)]

BuildPayload(v, messages) ==
    [messages |-> <<LastMessage(FormatMessages(v, messages))>>,
     stream_steps |-> TRUE, stream_tokens |-> TRUE]

-----------------------------------------------------------------------------
(* letta.py: Pipe.pipe, Pipe._send_request, Pipe._handle_streaming *)

\* display_events of pipe()
ResolveDisplayEvents(v, uv, em) == v.DISPLAY_EVENTS /\ uv.DISPLAY_EVENTS /\ em

\* With __user__ unusable the first statements of the try block raise, and
\* the except branch reads display_events, which is not bound yet: the
\* UnboundLocalError leaves pipe().
Pipe ==
    /\ variant = "sync"
    /\ state = "idle"
    /\ IF userOk
       THEN /\ user_valves' = userIn
            /\ display_events' = ResolveDisplayEvents(valves, userIn, emitter)
            /\ payload' = BuildPayload(variant, history)
            /\ out' = IF display_events'
                      THEN Append(out, SinkEv("status", "processing", Absent, FALSE))
                      ELSE out
            /\ state' = "requesting"
            /\ UNCHANGED <<errKind, failedIn>>
       ELSE /\ out' = Raise(out, "UnboundLocalError")
            /\ errKind' = "UnboundLocalError"
            /\ failedIn' = state
            /\ state' = "failed"
            /\ UNCHANGED <<user_valves, display_events, payload>>
    /\ UNCHANGED <<variant, valves, userIn, emitter, history, logOK, userOk,
                   waited, initPc, fileExists, status,
                   suspended, attempts, lastExc, stream, wire, chunksRead, pieces,
                   buf, response_content, log, conn, classified, doneSeen>>

\* what self.http.request may raise: urllib3's timeout and connection-level
\* errors, or anything else
RequestErrors == {"TimeoutError", "HTTPError", "ValueError"}

\* variant: the decorator retries on every exception
ShouldRetryAny(exc) == TRUE

\* retry_if_exception_type((TimeoutError, HTTPError))
ShouldRetry(exc) == exc \in {"TimeoutError", "HTTPError"}

\* stop_after_attempt(3)
StopAfterAttempt(n) == n >= MaxAttempts

\* variant: the computed delay is used as it is
WaitUnclamped(n) == Multiplier * 2 ^ (n - 1)

\* wait_exponential(multiplier=1, min=4, max=10) after failed attempt n:
\* multiplier * 2 ** (n - 1), clamped into [min, max]
WaitExponential(n) ==
    LET result == Multiplier * 2 ^ (n - 1)
        capped == IF result < MaxWait THEN result ELSE MaxWait
    IN IF capped > MinWait THEN capped ELSE MinWait

\* the except / finally branches of generator(), from log l and deliveries o.
\* When the record of the error cannot be written, _log_response raises inside
\* the except branch and the OSError leaves the generator.
SyncFail(l, o, kind) ==
    /\ IF LogFails
       THEN /\ log' = l
            /\ out' = Raise(o, "OSError")
            /\ errKind' = "OSError"
       ELSE /\ log' = IF valves.DEV_MODE THEN LogResponse(l, "error") ELSE l
            /\ out' = Append(IF display_events
                             THEN DevEvent(o, "error", kind, Absent) ELSE o,
                             Ev("caller", "yield", ErrorChunk(kind), Absent, FALSE))
            /\ errKind' = kind
    /\ conn' = Release(conn)
    /\ failedIn' = state
    /\ state' = "failed"

\* self.http.request returns the response whatever its status, and the
\* generator goes on to response.stream() without looking at it
SendOk ==
    /\ variant = "sync"
    /\ state = "requesting"
    /\ attempts' = attempts + 1
    /\ lastExc' = "none"
    /\ \E st \in Statuses :
          /\ status' = st
          /\ \E s \in BodiesOf(st) : stream' = s /\ wire' = s
    /\ conn' = "open"
    /\ state' = "streaming"
    /\ UNCHANGED <<variant, valves, userIn, emitter, history, logOK, userOk,
                   waited, initPc, fileExists,
                   payload, suspended, user_valves, display_events,
                   errKind, failedIn, chunksRead, pieces, buf, response_content,
                   out, log, classified, doneSeen>>

SendRetry ==
    /\ variant = "sync"
    /\ state = "requesting"
    /\ \E exc \in RequestErrors :
          /\ ShouldRetry(exc)
          /\ ~StopAfterAttempt(attempts + 1)
          /\ attempts' = attempts + 1
          /\ lastExc' = exc
    /\ waited' = Append(waited, WaitExponential(attempts + 1))
    /\ UNCHANGED <<variant, valves, userIn, emitter, history, logOK, userOk,
                   initPc, fileExists, status,
                   payload, suspended, user_valves, display_events,
                   state, errKind, failedIn, stream, wire, chunksRead, pieces, buf,
                   response_content, out, log, conn, classified, doneSeen>>

SendExhausted ==
    /\ variant = "sync"
    /\ state = "requesting"
    /\ \E exc \in RequestErrors :
          /\ ShouldRetry(exc)
          /\ StopAfterAttempt(attempts + 1)
          /\ attempts' = attempts + 1
          /\ lastExc' = exc
    /\ SyncFail(log, out, "RetryError")
    /\ UNCHANGED <<variant, valves, userIn, emitter, history, logOK, userOk,
                   waited, initPc, fileExists, status,
                   payload, suspended, user_valves, display_events,
                   stream, wire, chunksRead, pieces, buf, response_content,
                   classified, doneSeen>>

SendOther ==
    /\ variant = "sync"
    /\ state = "requesting"
    /\ \E exc \in RequestErrors :
          /\ ~ShouldRetry(exc)
          /\ attempts' = attempts + 1
          /\ lastExc' = exc
          /\ SyncFail(log, out, exc)
    /\ UNCHANGED <<variant, valves, userIn, emitter, history, logOK, userOk,
                   waited, initPc, fileExists, status,
                   payload, suspended, user_valves, display_events,
                   stream, wire, chunksRead, pieces, buf, response_content,
                   classified, doneSeen>>

\* the transport hands over the next n bytes; the last chunk allowed takes the rest
ChunkSizes == { n \in 1..Len(wire) : chunksRead + 1 < MaxChunks \/ n = Len(wire) }

ReadChunk ==
    /\ variant = "sync"
    /\ state = "streaming"
    /\ pieces = <<>>
    /\ wire # <<>>
    /\ \E n \in ChunkSizes :
          /\ pieces' = Split(SubSeq(wire, 1, n))
          /\ wire' = Drop(wire, n)
    /\ chunksRead' = chunksRead + 1
    /\ suspended' = FALSE
    /\ IF valves.DEV_MODE /\ valves.LOG_RAW_CHUNKS /\ LogFails
       THEN SyncFail(log, out, "OSError")
       ELSE /\ log' = IF valves.DEV_MODE /\ valves.LOG_RAW_CHUNKS
                      THEN LogResponse(log, "raw_chunk") ELSE log
            /\ UNCHANGED <<state, errKind, failedIn, out, conn>>
    /\ UNCHANGED <<variant, valves, userIn, emitter, history, logOK, userOk,
                   waited, initPc, fileExists, status,
                   payload, user_valves, display_events, attempts, lastExc,
                   stream, buf, response_content, classified, doneSeen>>

\* variant: the usage branch does not consult the toggle
ForwardUsageAlways(uv) == TRUE

\* user_valves.SHOW_USAGE_STATS / getattr(user_valves, "SHOW_USAGE_STATS", True)
ForwardUsage(uv) == uv.SHOW_USAGE_STATS

\* user_valves.SHOW_REASONING / getattr(user_valves, "SHOW_REASONING", True)
ForwardReasoning(uv) == uv.SHOW_REASONING

\* the body of the piece loop for one piece classified f:
\* the log and deliveries after it, and the exception that leaves the loop
SyncFrame(f) ==
    LET parsed == IF valves.DEV_MODE /\ valves.LOG_PARSED_CHUNKS
                  THEN LogResponse(log, "parsed_chunk") ELSE log
    IN CASE f.kind = "discard" -> [log |-> log, out |-> out, exc |-> "none"]
         [] f.kind = "done" ->
              [log |-> IF valves.DEV_MODE THEN LogResponse(log, "done_marker")
                       ELSE log,
               out |-> out, exc |-> "none"]
         [] f.kind = "JSONDecodeError" ->
              IF CaughtLocally(f.kind)
              THEN [log |-> IF valves.DEV_MODE THEN LogResponse(log, "parse_error")
                            ELSE log,
                    out |-> IF display_events
                            THEN DevEvent(out, "warning", "Failed to parse chunk",
                                          Absent)
                            ELSE out,
                    exc |-> "none"]
              ELSE [log |-> log, out |-> out, exc |-> f.kind]
         [] f.kind = "AttributeError" ->
              [log |-> parsed, out |-> out,
               exc |-> IF CaughtLocally(f.kind) THEN "none" ELSE f.kind]
         [] f.kind = "assistant_message" ->
              IF f.content # ""
              THEN [log |-> IF valves.DEV_MODE
                            THEN LogResponse(parsed, "assistant_message")
                            ELSE parsed,
                    out |-> Append(out, Ev("caller", "yield", Increment(f.content),
                                           Absent, FALSE)),
                    exc |-> "none"]
              ELSE [log |-> parsed, out |-> out, exc |-> "none"]
         [] f.kind = "usage_statistics" ->
              IF ForwardUsage(user_valves) /\ display_events
              THEN [log |-> IF valves.DEV_MODE THEN LogResponse(parsed, "usage_stats")
                            ELSE parsed,
                    out |-> DevEvent(out, "usage", "", Absent),
                    exc |-> "none"]
              ELSE [log |-> parsed, out |-> out, exc |-> "none"]
         [] f.kind = "reasoning_message" ->
              IF ForwardReasoning(user_valves) /\ display_events
              THEN [log |-> IF valves.DEV_MODE THEN LogResponse(parsed, "reasoning")
                            ELSE parsed,
                    out |-> DevEvent(out, "reasoning", f.content, f.step),
                    exc |-> "none"]
              ELSE [log |-> parsed, out |-> out, exc |-> "none"]
         [] OTHER -> [log |-> parsed, out |-> out, exc |-> "none"]

\* Every branch writes its record before it delivers anything, so a record
\* that cannot be written raises OSError with nothing of the piece delivered.
ProcessPiece ==
    /\ variant = "sync"
    /\ state = "streaming"
    /\ pieces # <<>>
    /\ LET f == Classify(Head(pieces))
           r == SyncFrame(f)
       IN /\ pieces' = Tail(pieces)
          /\ classified' = IF IsClassified(f) THEN Append(classified, f)
                           ELSE classified
          /\ doneSeen' = (doneSeen \/ Strip(Head(pieces)) = DoneMarker)
          /\ IF LogFails /\ r.log # log
             THEN /\ SyncFail(log, out, "OSError")
                  /\ suspended' = FALSE
             ELSE IF r.exc = "none"
             THEN /\ log' = r.log
                  /\ out' = r.out
                  /\ suspended' = (f.kind = "assistant_message" /\ f.content # "")
                  /\ UNCHANGED <<state, errKind, failedIn, conn>>
             ELSE /\ SyncFail(r.log, r.out, r.exc)
                  /\ suspended' = FALSE
    /\ UNCHANGED <<variant, valves, userIn, emitter, history, logOK, userOk,
                   waited, initPc, fileExists, status,
                   payload, user_valves, display_events,
                   attempts, lastExc, stream, wire, chunksRead, buf, response_content>>

\* response.stream() is exhausted: the final status event, then finally
EndOfStream ==
    /\ variant = "sync"
    /\ state = "streaming"
    /\ pieces = <<>>
    /\ wire = <<>>
    /\ out' = IF display_events THEN DevEvent(out, "status", "clear", Absent) ELSE out
    /\ conn' = Release(conn)
    /\ state' = "completed"
    /\ suspended' = FALSE
    /\ UNCHANGED <<variant, valves, userIn, emitter, history, logOK, userOk,
                   waited, initPc, fileExists, status,
                   payload, user_valves, display_events,
                   attempts, lastExc, errKind, failedIn, stream, wire, chunksRead, pieces,
                   buf, response_content, log, classified, doneSeen>>

\* response.stream() raises while the body is being read
ReadError ==
    /\ variant = "sync"
    /\ state = "streaming"
    /\ pieces = <<>>
    /\ SyncFail(log, out, "ProtocolError")
    /\ suspended' = FALSE
    /\ UNCHANGED <<variant, valves, userIn, emitter, history, logOK, userOk,
                   waited, initPc, fileExists, status,
                   payload, user_valves, display_events,
                   attempts, lastExc, stream, wire, chunksRead, pieces, buf,
                   response_content, classified, doneSeen>>

-----------------------------------------------------------------------------
(* letta_improved.py: Pipe.pipe, Pipe.get_letta_response *)

AsyncPipe ==
    /\ variant = "async"
    /\ state = "idle"
    /\ user_valves' = DefaultUserValves
    /\ out' = EmitStatus(out, "info", FALSE)
    /\ payload' = BuildPayload(variant, history)
    /\ state' = "requesting"
    /\ UNCHANGED <<variant, valves, userIn, emitter, history, logOK, userOk,
                   waited, initPc, fileExists, status,
                   suspended, display_events, attempts, lastExc,
                   errKind, failedIn, stream, wire, chunksRead, pieces, buf,
                   response_content, log, conn, classified, doneSeen>>

\* get_letta_response re-raises; pipe() reports an error status and returns ""
AsyncFail(o, kind) ==
    /\ out' = Append(EmitStatus(o, "error", TRUE),
                     Ev("caller", "return", "", Absent, FALSE))
    /\ conn' = Release(conn)
    /\ errKind' = kind
    /\ failedIn' = state
    /\ state' = "failed"

\* get_letta_response returns "\n".join(rc); pipe() reports the final status
AsyncReturn(o, rc) ==
    LET response == Join(rc)
    IN /\ out' = Append(EmitStatus(o, IF response # "" THEN "success" ELSE "error",
                                   TRUE),
                        Ev("caller", "return", response, Absent, FALSE))
       /\ conn' = Release(conn)
       /\ state' = "completed"
       /\ UNCHANGED <<errKind, failedIn>>

\* what session.post may raise: aiohttp's connection-level errors, or anything else
PostErrors == {"ClientError", "ValueError"}

PostOk ==
    /\ variant = "async"
    /\ state = "requesting"
    /\ attempts' = attempts + 1
    /\ lastExc' = "none"
    /\ status' = Success
    /\ \E s \in BodiesOf(Success) : stream' = s /\ wire' = s
    /\ conn' = "open"
    /\ state' = "streaming"
    /\ UNCHANGED <<variant, valves, userIn, emitter, history, logOK, userOk,
                   waited, initPc, fileExists,
                   payload, suspended, user_valves, display_events,
                   errKind, failedIn, chunksRead, pieces, buf, response_content,
                   out, log, classified, doneSeen>>

\* session.post raises: there is a single attempt
PostFail ==
    /\ variant = "async"
    /\ state = "requesting"
    /\ \E exc \in PostErrors :
          /\ attempts' = attempts + 1
          /\ lastExc' = exc
          /\ AsyncFail(out, exc)
    /\ UNCHANGED <<variant, valves, userIn, emitter, history, logOK, userOk,
                   waited, initPc, fileExists, status,
                   payload, suspended, user_valves, display_events,
                   stream, wire, chunksRead, pieces, buf, response_content, log,
                   classified, doneSeen>>

\* status 422 raises ValueError; response.raise_for_status() raises
\* ClientResponseError, an aiohttp.ClientError, for the other error statuses
StatusError(st) ==
    IF st = "422" THEN "ValueError"
    ELSE "ClientError"

\* the response arrives with an error status: the body is not iterated, and
\* leaving `async with` releases the connection
PostStatusError ==
    /\ variant = "async"
    /\ state = "requesting"
    /\ attempts' = attempts + 1
    /\ lastExc' = "none"
    /\ \E st \in ErrorStatuses :
          /\ status' = st
          /\ \E s \in BodiesOf(st) : stream' = s
          /\ errKind' = StatusError(st)
    /\ wire' = <<>>
    /\ out' = Append(EmitStatus(out, "error", TRUE),
                     Ev("caller", "return", "", Absent, FALSE))
    /\ conn' = Release("open")
    /\ failedIn' = state
    /\ state' = "failed"
    /\ UNCHANGED <<variant, valves, userIn, emitter, history, logOK, userOk,
                   waited, initPc, fileExists,
                   payload, suspended, user_valves, display_events,
                   chunksRead, pieces, buf, response_content, log,
                   classified, doneSeen>>

HasLine(b) == \E i \in 1..Len(b) : b[i] = NL

\* aiohttp StreamReader.readline: through the first newline, or all at EOF
LineEnd(b) ==
    IF HasLine(b) THEN FirstOf({ i \in 1..Len(b) : b[i] = NL }) ELSE Len(b)

\* the transport appends the next n bytes to the reader's buffer
FeedChunk ==
    /\ variant = "async"
    /\ state = "streaming"
    /\ ~HasLine(buf)
    /\ wire # <<>>
    /\ \E n \in ChunkSizes :
          /\ buf' = buf \o SubSeq(wire, 1, n)
          /\ wire' = Drop(wire, n)
    /\ chunksRead' = chunksRead + 1
    /\ UNCHANGED <<variant, valves, userIn, emitter, history, logOK, userOk,
                   waited, initPc, fileExists, status,
                   payload, suspended, user_valves, display_events,
                   state, attempts, lastExc, errKind, failedIn, stream, pieces,
                   response_content, out, log, conn, classified, doneSeen>>

\* the body of "async for line" for one line classified f: response_content and
\* the deliveries after it, the exception that leaves the loop, and break
AsyncFrame(f) ==
    LET same == [rc |-> response_content, out |-> out, exc |-> "none", brk |-> FALSE]
    IN CASE f.kind = "discard" -> same
         [] f.kind = "done" -> [same EXCEPT !.brk = TRUE]
         [] f.kind \in {"JSONDecodeError", "AttributeError"} ->
              [same EXCEPT !.exc = IF CaughtLocally(f.kind) THEN "none" ELSE f.kind]
         [] f.kind = "assistant_message" ->
              IF f.content # ""
              THEN [same EXCEPT
                      !.rc = Append(response_content, f.content),
                      !.out = EmitMessage(EmitStatus(out, "info", TRUE), f.content)]
              ELSE same
         [] f.kind = "usage_statistics" ->
              IF ForwardUsage(user_valves)
              THEN IF emitter
                   THEN [same EXCEPT
                           !.out = Append(out, SinkEv("usage", "", Absent, FALSE))]
                   ELSE [same EXCEPT !.exc = "TypeError"]
              ELSE same
         [] f.kind = "reasoning_message" ->
              IF ForwardReasoning(user_valves)
              THEN IF emitter
                   THEN [same EXCEPT
                           !.out = Append(out, SinkEv("reasoning", f.content, f.step,
                                                      FALSE))]
                   ELSE [same EXCEPT !.exc = "TypeError"]
              ELSE same
         [] OTHER -> same

ProcessLine ==
    /\ variant = "async"
    /\ state = "streaming"
    /\ HasLine(buf) \/ (wire = <<>> /\ buf # <<>>)
    /\ LET n == LineEnd(buf)
           f == Classify(SubSeq(buf, 1, n))
           r == AsyncFrame(f)
       IN /\ buf' = Drop(buf, n)
          /\ classified' = IF IsClassified(f) THEN Append(classified, f)
                           ELSE classified
          /\ doneSeen' = (doneSeen \/ Strip(SubSeq(buf, 1, n)) = DoneMarker)
          /\ response_content' = r.rc
          /\ IF r.exc # "none" THEN AsyncFail(r.out, r.exc)
             ELSE IF r.brk THEN AsyncReturn(r.out, r.rc)
             ELSE /\ out' = r.out
                  /\ UNCHANGED <<state, errKind, failedIn, conn>>
    /\ UNCHANGED <<variant, valves, userIn, emitter, history, logOK, userOk,
                   waited, initPc, fileExists, status,
                   payload, suspended, user_valves, display_events,
                   attempts, lastExc, stream, wire, chunksRead, pieces, log>>

\* response.content is exhausted
AsyncEnd ==
    /\ variant = "async"
    /\ state = "streaming"
    /\ wire = <<>>
    /\ buf = <<>>
    /\ AsyncReturn(out, response_content)
    /\ UNCHANGED <<variant, valves, userIn, emitter, history, logOK, userOk,
                   waited, initPc, fileExists, status,
                   payload, suspended, user_valves, display_events,
                   attempts, lastExc, stream, wire, chunksRead, pieces, buf,
                   response_content, log, classified, doneSeen>>

\* reading response.content raises
AsyncReadError ==
    /\ variant = "async"
    /\ state = "streaming"
    /\ ~HasLine(buf)
    /\ AsyncFail(out, "ClientPayloadError")
    /\ UNCHANGED <<variant, valves, userIn, emitter, history, logOK, userOk,
                   waited, initPc, fileExists, status,
                   payload, suspended, user_valves, display_events,
                   attempts, lastExc, stream, wire, chunksRead, pieces, buf,
                   response_content, log, classified, doneSeen>>

-----------------------------------------------------------------------------
(* Cancellation: the caller closes the generator of letta.py while it is   *)
(* suspended at a yield (GeneratorExit is raised there), or cancels the    *)
(* task awaiting pipe() of letta_improved.py (CancelledError is raised at  *)
(* the await of the read).                                                 *)

CancelKinds == {"GeneratorExit", "CancelledError"}

\* variant: the handlers are written "except BaseException"
EscapesNothing(exc) == FALSE

\* "except Exception" catches neither: both derive from BaseException only
EscapesHandlers(exc) == exc \in CancelKinds

Cancel ==
    /\ state = "streaming"
    /\ variant = "sync" => suspended
    /\ LET exc == IF variant = "sync" THEN "GeneratorExit" ELSE "CancelledError"
       IN IF EscapesHandlers(exc)
          THEN /\ conn' = Release(conn)
               /\ errKind' = exc
               /\ state' = "cancelled"
               /\ UNCHANGED <<failedIn, out, log>>
          ELSE IF variant = "sync" THEN SyncFail(log, out, exc)
          ELSE /\ AsyncFail(out, exc)
               /\ UNCHANGED log
    /\ suspended' = FALSE
    /\ UNCHANGED <<variant, valves, userIn, emitter, history, logOK, userOk,
                   waited, initPc, fileExists, status,
                   payload, user_valves, display_events, attempts, lastExc,
                   stream, wire, chunksRead, pieces, buf, response_content,
                   classified, doneSeen>>

-----------------------------------------------------------------------------

Next ==
    \/ Pipe
    \/ SendOk
    \/ SendRetry
    \/ SendExhausted
    \/ SendOther
    \/ ReadChunk
    \/ ProcessPiece
    \/ EndOfStream
    \/ ReadError
    \/ AsyncPipe
    \/ PostOk
    \/ PostStatusError
    \/ PostFail
    \/ FeedChunk
    \/ ProcessLine
    \/ AsyncEnd
    \/ AsyncReadError
    \/ Cancel

Spec == Init /\ [][Next]_vars

\* building the request, for every history
InitRequest ==
    /\ variant \in {"sync", "async"}
    /\ valves \in { v \in ValvesOf(variant) : ~v.DEV_MODE /\ v.DISPLAY_EVENTS }
    /\ userIn = DefaultUserValves
    /\ emitter = TRUE
    /\ history \in Histories
    /\ logOK = TRUE
    /\ userOk = TRUE
    /\ LogReady
    /\ Start

NextRequest ==
    \/ Pipe
    \/ AsyncPipe

SpecRequest == InitRequest /\ [][NextRequest]_vars

\* the system-level toggles SHOW_USAGE_STATS and SHOW_REASONING of letta.py
\* vary, and so do the user-level toggles handed to either variant
PolicyValvesOf(v) ==
    IF v = "sync"
    THEN [DEV_MODE : {TRUE}, DISPLAY_EVENTS : {TRUE}, SHOW_REASONING : BOOLEAN,
          SHOW_USAGE_STATS : BOOLEAN, LOG_RAW_CHUNKS : {TRUE},
          LOG_PARSED_CHUNKS : {TRUE}, SAVE_RESPONSES : {TRUE}]
    ELSE { w \in ValvesOf(v) : ~w.DEV_MODE }

InitPolicy ==
    /\ variant \in {"sync", "async"}
    /\ valves \in PolicyValvesOf(variant)
    /\ userIn \in UserValvesOf("sync")
    /\ emitter = TRUE
    /\ history = TestHistory
    /\ logOK = TRUE
    /\ userOk = TRUE
    /\ LogReady
    /\ Start

SpecPolicy == InitPolicy /\ [][Next]_vars

\* the environment may fail the run: the log file cannot be opened, or
\* __user__ is not a mapping
InitFaults ==
    /\ variant \in {"sync", "async"}
    /\ valves \in { v \in ValvesOf(variant) : v.DISPLAY_EVENTS }
    /\ userIn = DefaultUserValves
    /\ emitter = TRUE
    /\ history = TestHistory
    /\ logOK \in BOOLEAN
    /\ userOk \in BOOLEAN
    /\ LogReady
    /\ Start

SpecFaults == InitFaults /\ [][Next]_vars

-----------------------------------------------------------------------------
(* Views of the run used by the properties *)

Last(q) == q[Len(q)]

SinkEvents == SelectSeq(out, LAMBDA e : e.to = "sink")

CallerEvents == SelectSeq(out, LAMBDA e : e.to = "caller")

\* the input units of a whole body: pieces of split("\n\n"), or lines
RECURSIVE Lines(_)
Lines(b) ==
    IF b = <<>> THEN <<>>
    ELSE <<SubSeq(b, 1, LineEnd(b))>> \o Lines(Drop(b, LineEnd(b)))

Units(b) == IF variant = "sync" THEN Split(b) ELSE Lines(b)

\* the exception, if any, with which frame f leaves the frame loop
LeavesLoop(f) ==
    \/ f.kind \in {"JSONDecodeError", "AttributeError"} /\ ~CaughtLocally(f.kind)
    \/ /\ variant = "async"
       /\ ~emitter
       /\ \/ f.kind = "usage_statistics" /\ ForwardUsage(user_valves)
          \/ f.kind = "reasoning_message" /\ ForwardReasoning(user_valves)

\* the frames classified when the units arrive one after the other
RECURSIVE FramesOf(_)
FramesOf(units) ==
    IF units = <<>> THEN <<>>
    ELSE LET f == Classify(Head(units))
         IN IF f.kind = "done" /\ variant = "async" THEN <<>>
            ELSE IF ~IsClassified(f) THEN FramesOf(Tail(units))
            ELSE IF LeavesLoop(f) THEN <<f>>
            ELSE <<f>> \o FramesOf(Tail(units))

\* the run ended by itself, not by a transport error
EndedOnFrames ==
    \/ state = "completed"
    \/ state = "failed" /\ errKind \in {"JSONDecodeError", "AttributeError", "TypeError"}

-----------------------------------------------------------------------------
(* C1: re-chunking invariance.  However the transport cuts the body into   *)
(* chunks, the frames classified by a run that read the whole body are the *)
(* frames classified when the body arrives as a single chunk.              *)

C1_RechunkingInvariance ==
    EndedOnFrames => classified = FramesOf(Units(stream))

-----------------------------------------------------------------------------
(* C2: once the terminal marker data: [DONE] has been read, no later frame *)
(* is classified and nothing more is yielded to the caller or forwarded to *)
(* the sink as content, usage, reasoning or warning.                       *)

Deliveries ==
    SelectSeq(out, LAMBDA e : e.type \in {"yield", "message", "usage", "reasoning",
                                          "warning"}
                              /\ e.text # ErrorChunk(errKind))

C2_NothingAfterDone ==
    [][doneSeen => (classified' = classified /\ Deliveries' = Deliveries)]_vars

-----------------------------------------------------------------------------
(* C3: a data frame whose payload is malformed JSON never aborts the run:  *)
(* the step that meets it consumes that frame only and leaves the run in   *)
(* streaming with no error, and the run completes only with all input read *)
(* (or after the terminal marker).                                         *)

MetParseError ==
    /\ Len(classified') = Len(classified) + 1
    /\ Last(classified').kind = "JSONDecodeError"

ConsumedOneUnit ==
    /\ wire' = wire
    /\ IF variant = "sync" THEN pieces' = Tail(pieces)
       ELSE buf' = Drop(buf, LineEnd(buf))

InputLeft == pieces # <<>> \/ buf # <<>> \/ wire # <<>>

C3_ParseErrorIsLocal ==
    [][/\ MetParseError =>
            /\ state' = "streaming"
            /\ errKind' = "none"
            /\ ConsumedOneUnit
       /\ (state' = "completed" /\ InputLeft') => doneSeen']_vars

C3_Witness ==
    /\ state = "completed"
    /\ \E i \in 1..(Len(classified) - 1) :
          /\ classified[i].kind = "JSONDecodeError"
          /\ classified[i + 1].kind = "assistant_message"

-----------------------------------------------------------------------------
(* C4: in a run whose resolved user valves have usage display disabled, no *)
(* usage event is delivered to the sink.                                   *)

-----------------------------------------------------------------------------
(* C5: at most 3 attempts per run; a run gives up on a transient failure   *)
(* to establish the stream only at the 3rd attempt, and then fails with    *)
(* the distinct kind of exhausted retries; until then it tries again (so   *)
(* two transient failures and a success make 3 attempts and streaming).    *)

Transient(exc) == exc \in {"TimeoutError", "HTTPError", "ClientError"}

C5_RetryBound ==
    /\ attempts <= MaxAttempts
    /\ (state = "failed" /\ failedIn = "requesting" /\ Transient(lastExc)) =>
           (attempts = MaxAttempts /\ errKind = "RetryError")

-----------------------------------------------------------------------------
(* C6: retries apply to establishing the stream only, and to transient     *)
(* failures only: the attempt counter never changes once the run is in     *)
(* streaming or ended, an attempt follows a failed one only if that one    *)
(* was transient, and the bytes of the response are delivered once, each   *)
(* data frame being classified at most once.                               *)

IsSuffix(a, b) == Len(a) <= Len(b) /\ a = Drop(b, Len(b) - Len(a))

Consumed == SubSeq(stream, 1, Len(stream) - Len(wire))

CountData(b) ==
    Cardinality({ i \in 1..Len(b) : StartsWith(Drop(b, i - 1), DataPrefix) })

-----------------------------------------------------------------------------
(* C7: when a read error ends the run after assistant text was processed,  *)
(* the text accumulated before the error is what the caller has received   *)
(* or receives: it is not replaced by an empty result.                     *)

AssistantFrames ==
    SelectSeq(classified, LAMBDA f : f.kind = "assistant_message" /\ f.content # "")

Contents == [i \in 1..Len(AssistantFrames) |-> AssistantFrames[i].content]

Yields ==
    SelectSeq(CallerEvents,
              LAMBDA e : e.type = "yield" /\ e.text # ErrorChunk(errKind))

YieldTexts == [i \in 1..Len(Yields) |-> Yields[i].text]

Returned == SelectSeq(CallerEvents, LAMBDA e : e.type = "return")

ReadErrors == {"ProtocolError", "ClientPayloadError"}

C7_PartialAnswerKept ==
    (state = "failed" /\ failedIn = "streaming" /\ errKind \in ReadErrors
       /\ Contents # <<>>) =>
        \/ YieldTexts = Contents
        \/ YieldTexts = [i \in 1..Len(Contents) |-> Increment(Contents[i])]
        \/ Returned # <<>> /\ Returned[1].text = Join(Contents)

-----------------------------------------------------------------------------
(* C8: whenever a run ends in failed and a sink is registered, the sink    *)
(* has received an error event for the failure before the error result is  *)
(* handed to the caller, whatever the DEV_MODE and display toggles are.     *)

\* a sink is registered and the run's display policy lets its events through
SinkRegistered == emitter /\ (variant = "sync" => display_events)

IsErrorEvent(e) ==
    e.to = "sink" /\ (e.type = "error" \/ (e.type = "status" /\ e.text = "error"))

C8_ErrorEventBeforeResult ==
    (state = "failed" /\ SinkRegistered) =>
        \E i \in 1..Len(out) :
            /\ IsErrorEvent(out[i])
            /\ \E j \in (i + 1)..Len(out) : out[j].to = "caller"

-----------------------------------------------------------------------------
(* C9: whenever a run ends in completed and a sink is registered, a        *)
(* done/clear status is delivered to the sink, nothing is delivered to the *)
(* sink after a done status, and it precedes the return of the answer.     *)

IsDoneStatus(e) ==
    e.to = "sink" /\ e.type = "status" /\ (e.done \/ e.text = "clear")

C9_DoneStatusLast ==
    (state = "completed" /\ SinkRegistered) =>
        /\ SinkEvents # <<>>
        /\ \A i \in 1..Len(SinkEvents) :
              IsDoneStatus(SinkEvents[i]) <=> i = Len(SinkEvents)
        /\ \A j \in 1..Len(out) :
              out[j].type = "return" => \E i \in 1..(j - 1) : IsDoneStatus(out[i])

-----------------------------------------------------------------------------
(* C10: assistant text is opaque: the increments handed to the caller or   *)
(* the sink are exactly the content strings of the assistant_message       *)
(* frames, and the final answer is exactly their concatenation.            *)

RECURSIVE Concat(_)
Concat(list) == IF list = <<>> THEN "" ELSE Head(list) \o Concat(Tail(list))

Messages == SelectSeq(SinkEvents, LAMBDA e : e.type = "message")

MessageTexts == [i \in 1..Len(Messages) |-> Messages[i].text]

C10_TextOpaque ==
    /\ variant = "sync" => YieldTexts = Contents
    /\ (variant = "async" /\ emitter) => MessageTexts = Contents
    /\ (state = "completed" /\ Returned # <<>>) => Returned[1].text = Concat(Contents)

-----------------------------------------------------------------------------
(* C11: while reasoning display is enabled and a sink is registered, every *)
(* reasoning_message frame processed gives the sink one reasoning event,   *)
(* in order, whose step is the frame's step, or "unknown" when the frame   *)
(* has none; while reasoning display is disabled the sink receives no      *)
(* reasoning event.                                                        *)

ReasoningFrames == SelectSeq(classified, LAMBDA f : f.kind = "reasoning_message")

ReasoningEvents == SelectSeq(SinkEvents, LAMBDA e : e.type = "reasoning")

C11_ReasoningForwarded ==
    /\ (user_valves.SHOW_REASONING /\ SinkRegistered) =>
          /\ Len(ReasoningEvents) = Len(ReasoningFrames)
          /\ \A i \in 1..Len(ReasoningEvents) :
                /\ ReasoningEvents[i].step = ReasoningFrames[i].step
                /\ ReasoningEvents[i].step \in {"s1", "unknown"}
    /\ ~user_valves.SHOW_REASONING => ReasoningEvents = <<>>

-----------------------------------------------------------------------------
(* C12: once the caller has cancelled a run that was streaming, the        *)
(* connection is released and nothing more is delivered to the sink or the *)
(* caller, and no further frame is processed.                              *)

C12_CancelStopsRun ==
    [][errKind' \in CancelKinds =>
           (conn' # "open" /\ out' = out /\ classified' = classified)]_vars

C12_Witness ==
    /\ state = "cancelled"
    /\ conn = "released"
    /\ Len(classified) = 1
    /\ InputLeft

-----------------------------------------------------------------------------
(* C13: no leaked connection.  A connection is held exactly while the run  *)
(* is streaming; whenever a run that established a response has ended     *)
(* (completed, failed or cancelled) the connection is released, and a run  *)
(* that never established one holds none.                                  *)

Terminal == {"completed", "failed", "cancelled"}

-----------------------------------------------------------------------------
(* C14: for every non-empty history the body of the outbound request       *)
(* carries exactly one message, whose content is that of the most recent   *)
(* message of the history, with stream_steps and stream_tokens both true.  *)

C14_OnlyLatestSent ==
    state = "requesting" =>
        /\ Len(payload.messages) = 1
        /\ payload.messages[1].content = Last(history).content
        /\ payload.stream_steps
        /\ payload.stream_tokens

-----------------------------------------------------------------------------
(* C15: merging the display policy only narrows.  A usage or reasoning     *)
(* event reaches the sink only if that kind is enabled at the system level *)
(* and at the user level, and any event reaches the sink only if           *)
(* DISPLAY_EVENTS is enabled at both levels, whatever the other toggles.   *)

EnabledAtBothLevels(kind) ==
    CASE kind = "usage" -> valves.SHOW_USAGE_STATS /\ userIn.SHOW_USAGE_STATS
      [] kind = "reasoning" -> valves.SHOW_REASONING /\ userIn.SHOW_REASONING
      [] OTHER -> TRUE

C15_MergeOnlyNarrows ==
    \A i \in 1..Len(SinkEvents) :
        /\ EnabledAtBothLevels(SinkEvents[i].type)
        /\ valves.DISPLAY_EVENTS /\ userIn.DISPLAY_EVENTS

-----------------------------------------------------------------------------
(* C16: ordering.  Frames are processed one at a time in arrival order:    *)
(* a step classifies at most one frame, the one at the head of the pending *)
(* input, and only appends to what was delivered; the increments and       *)
(* events delivered are, in order, those of the frames classified.         *)

IsPrefix(a, b) == Len(a) <= Len(b) /\ a = SubSeq(b, 1, Len(a))

HeadUnit == IF variant = "sync" THEN Head(pieces) ELSE SubSeq(buf, 1, LineEnd(buf))

\* delivery e is what frame f produces
Matches(e, f) ==
    \/ /\ e.type \in {"yield", "message"}
       /\ f.kind = "assistant_message"
       /\ e.text \in {f.content, Increment(f.content)}
    \/ e.type = "usage" /\ f.kind = "usage_statistics"
    \/ /\ e.type = "reasoning"
       /\ f.kind = "reasoning_message"
       /\ e.text = f.content
       /\ e.step = f.step
    \/ e.type = "warning" /\ f.kind = "JSONDecodeError"

\* the deliveries d come from frames of c, in the order of c, one per frame
RECURSIVE InOrder(_, _)
InOrder(d, c) ==
    \/ d = <<>>
    \/ /\ c # <<>>
       /\ IF Matches(Head(d), Head(c)) THEN InOrder(Tail(d), Tail(c))
          ELSE InOrder(d, Tail(c))

C16_Ordering ==
    [][/\ IsPrefix(out, out')
       /\ IsPrefix(classified, classified')
       /\ Len(classified') <= Len(classified) + 1
       /\ classified' # classified =>
             (Last(classified') = Classify(HeadUnit) /\ ConsumedOneUnit)
       /\ InOrder(Deliveries', classified')]_vars

C16_Witness ==
    /\ state = "completed"
    /\ Len(classified) = 2
    /\ Len(Deliveries) = 2
    /\ Deliveries[1] # Deliveries[2]

-----------------------------------------------------------------------------
(* C17: a diagnostic record that cannot be written never changes the       *)
(* outcome of the run.  With the log file unwritable, a step that reads a  *)
(* chunk of the response leaves the run streaming and delivers nothing, as *)
(* it does with a writable log: the run does not fail because of the log.  *)

C17_LogFailureHarmless ==
    [][(~logOK /\ state = "streaming" /\ wire' # wire) =>
           (state' = "streaming" /\ out' = out)]_vars

-----------------------------------------------------------------------------
(* C18: pipe() never propagates an exception: whatever fails, while the    *)
(* user settings are resolved, the request is built or sent, or the        *)
(* response is read, the caller receives a string or an iterable that it   *)
(* consumes to the end without an exception being raised.                  *)

C18_NeverRaises ==
    \A i \in 1..Len(out) : out[i].type # "raise"

-----------------------------------------------------------------------------
(* C19: a unit of input is taken as a data frame exactly when its content, *)
(* trimmed of surrounding whitespace, begins with "data: "; a unit that is *)
(* discarded produces no delivery, no frame and no error.                  *)

UnitPending ==
    IF variant = "sync" THEN pieces # <<>>
    ELSE HasLine(buf) \/ (wire = <<>> /\ buf # <<>>)

C19_DataFrameRule ==
    [][(state = "streaming" /\ UnitPending /\ ConsumedOneUnit) =>
           /\ Classify(HeadUnit).kind # "discard" <=>
                  StartsWith(Strip(HeadUnit), DataPrefix)
           /\ Classify(HeadUnit).kind = "discard" =>
                  /\ out' = out
                  /\ classified' = classified
                  /\ state' = "streaming"]_vars

-----------------------------------------------------------------------------
(* C20: when the response is exhausted cleanly and the terminal marker was *)
(* never read, the run ends completed: no error event and no error status  *)
(* reaches the sink, and the caller is handed the accumulated answer.      *)

C20_ExhaustionCompletes ==
    [][(/\ state = "streaming"
        /\ ~InputLeft
        /\ ~doneSeen
        /\ state' # "streaming"
        /\ errKind' = errKind) =>
           /\ state' = "completed"
           /\ \A i \in 1..Len(out') : ~IsErrorEvent(out'[i])
           /\ variant = "async" =>
                 (Last(out').type = "return" /\ Last(out').text = Join(Contents))]_vars

-----------------------------------------------------------------------------
\* C30: the delay before attempt n (n = 2, 3) is multiplier * 2^k clamped into
\* [4, 10] and does not decrease with n; nothing is waited before the first
\* attempt or after the last one, and the aiohttp variant never waits.
C30_BackoffBounds ==
    /\ \A i \in 1..Len(waited) :
          /\ waited[i] >= MinWait
          /\ waited[i] <= MaxWait
          /\ (Multiplier * 2 ^ (i - 1) \in MinWait..MaxWait
                 => waited[i] = Multiplier * 2 ^ (i - 1))
          /\ (i > 1 => waited[i - 1] <= waited[i])
    /\ Len(waited) <= MaxAttempts - 1
    /\ (attempts = 0 => waited = <<>>)
    /\ (variant = "async" => waited = <<>>)
    /\ (variant = "sync" /\ state = "requesting" => Len(waited) = attempts)
    /\ (variant = "sync" /\ attempts > 0 /\ state # "requesting"
           => Len(waited) = attempts - 1)

C30_Witness == Len(waited) = MaxAttempts - 1 /\ state = "streaming"

-----------------------------------------------------------------------------
(* C21: the running answer changes only in a step that processes an        *)
(* assistant_message frame with non-empty content; that step appends the   *)
(* content to the answer and hands it on as exactly one increment.  An     *)
(* assistant_message with empty or absent content delivers nothing, and no *)
(* other frame alters the answer.                                          *)

\* letta.py keeps no answer: the caller holds what was yielded so far
Answer == IF variant = "sync" THEN YieldTexts ELSE response_content

Increments == IF variant = "sync" THEN Yields ELSE Messages

ProcessesUnit == state = "streaming" /\ UnitPending /\ ConsumedOneUnit

HasContent(f) == f.kind = "assistant_message" /\ f.content # ""

C21_AnswerAccumulation ==
    [][/\ Answer' # Answer => (ProcessesUnit /\ HasContent(Classify(HeadUnit)))
       /\ (ProcessesUnit /\ HasContent(Classify(HeadUnit))) =>
             /\ Answer' = Append(Answer, Classify(HeadUnit).content)
             /\ (variant = "sync" \/ emitter) =>
                   /\ Len(Increments') = Len(Increments) + 1
                   /\ Last(Increments').text = Classify(HeadUnit).content
       /\ (/\ ProcessesUnit
           /\ Classify(HeadUnit).kind = "assistant_message"
           /\ Classify(HeadUnit).content = "") => out' = out]_vars

-----------------------------------------------------------------------------
(* The response log file outside a run: Pipe objects are constructed, the  *)
(* test switches DEV_MODE on by assignment, and _log_response appends.     *)
(* Here log is the whole content of the file, the header included.         *)

RunVars ==
    <<user_valves, display_events, state, payload, suspended, attempts, waited,
      lastExc, errKind, failedIn, stream, wire, chunksRead, pieces, buf,
      response_content, out, conn, status, classified, doneSeen>>

Header == "header"

RecordTypes == {"raw_chunk", "parsed_chunk"}

\* Pipe.__init__ up to the test of log_path.exists() in _init_response_log
Construct(i) ==
    /\ initPc[i] = "new"
    /\ initPc' = [initPc EXCEPT ![i] =
                     IF valves.DEV_MODE /\ valves.SAVE_RESPONSES /\ ~fileExists
                     THEN "opening" ELSE "done"]
    /\ UNCHANGED <<variant, valves, userIn, emitter, history, logOK, userOk,
                   fileExists, log, RunVars>>

\* open(log_path, 'w') and the three header lines: the file is truncated
InitWrite(i) ==
    /\ initPc[i] = "opening"
    /\ log' = <<Header>>
    /\ fileExists' = TRUE
    /\ initPc' = [initPc EXCEPT ![i] = "done"]
    /\ UNCHANGED <<variant, valves, userIn, emitter, history, logOK, userOk,
                   RunVars>>

\* pipe.valves.DEV_MODE = True on a constructed Pipe: no initialiser runs
SetDevMode ==
    /\ \E i \in 1..Initialisers : initPc[i] = "done"
    /\ ~valves.DEV_MODE
    /\ valves' = [valves EXCEPT !.DEV_MODE = TRUE]
    /\ UNCHANGED <<variant, userIn, emitter, history, logOK, userOk,
                   fileExists, initPc, log, RunVars>>

\* _log_response of a constructed Pipe: open(path, 'a') creates a missing file
WriteRecord(i) ==
    /\ initPc[i] = "done"
    /\ Len(log) < MaxRecords
    /\ \E t \in RecordTypes :
          /\ LogResponse(log, t) # log
          /\ log' = LogResponse(log, t)
    /\ fileExists' = TRUE
    /\ UNCHANGED <<variant, valves, userIn, emitter, history, logOK, userOk,
                   initPc, RunVars>>

InitLog ==
    /\ variant = "sync"
    /\ valves \in ValvesOf("sync")
    /\ userIn \in UserValvesOf("sync")
    /\ emitter = TRUE
    /\ history = TestHistory
    /\ logOK = TRUE
    /\ userOk = TRUE
    /\ fileExists = FALSE
    /\ initPc = [i \in 1..Initialisers |-> "new"]
    /\ Start

NextLog ==
    \/ \E i \in 1..Initialisers : Construct(i)
    \/ \E i \in 1..Initialisers : InitWrite(i)
    \/ SetDevMode
    \/ \E i \in 1..Initialisers : WriteRecord(i)

SpecLog == InitLog /\ [][NextLog]_vars

-----------------------------------------------------------------------------
(* C22: the log file is append-only and starts with the header: no step    *)
(* removes or rewrites a record already written, and a file with any       *)
(* content has the header as its first content, also when dev mode is      *)
(* switched on after construction and when two initialisers race.          *)

C22_LogAppendOnly ==
    [][IsPrefix(log, log') /\ (log' # <<>> => log'[1] = Header)]_vars

-----------------------------------------------------------------------------
(* A configuration change while a run is in flight: the host assigns the   *)
(* valve (followed by on_valves_updated, which only replaces the           *)
(* connection pool) or calls update_settings of letta_improved.py, whose   *)
(* initialiser finds the log file present.                                 *)

InFlight == {"requesting", "streaming"}

ChangeValves ==
    /\ state \in InFlight
    /\ valves' = [valves EXCEPT !.DEV_MODE = ~valves.DEV_MODE]
    /\ UNCHANGED <<variant, userIn, emitter, history, logOK, userOk,
                   fileExists, initPc, log, RunVars>>

\* the runs start with diagnostics off, the default
InitConfig ==
    /\ variant \in {"sync", "async"}
    /\ valves \in {v \in ValvesOf(variant) : ~v.DEV_MODE}
    /\ userIn = DefaultUserValves
    /\ emitter = TRUE
    /\ history = TestHistory
    /\ logOK = TRUE
    /\ userOk = TRUE
    /\ LogReady
    /\ Start

NextConfig == Next \/ ChangeValves

SpecConfig == InitConfig /\ [][NextConfig]_vars

-----------------------------------------------------------------------------
(* C23: a configuration change while a run is in flight does not change    *)
(* which events that run forwards or logs.  For a run started with         *)
(* diagnostics off: it writes no record, and the sink of letta.py, which   *)
(* forwards through _dev_event everything but the initial status, receives *)
(* nothing else, whatever is changed meanwhile.                            *)

C23_RunKeepsItsConfig ==
    /\ log = <<>>
    /\ variant = "sync" =>
          \A i \in 1..Len(SinkEvents) :
             SinkEvents[i].type = "status" /\ SinkEvents[i].text = "processing"

-----------------------------------------------------------------------------
(* C24: partial-frame buffering.  Every unit of input a run processes is a *)
(* whole frame of the body, as delimited by blank lines, or blank: the     *)
(* part of a frame that arrived before a chunk boundary is never parsed,   *)
(* reported or forwarded by itself, and the part that arrives in the next  *)
(* chunk is never discarded by itself.                                     *)

WholeFrames == { Strip(Split(stream)[i]) : i \in 1..Len(Split(stream)) }

C24_PartialFrameBuffered ==
    [][ProcessesUnit =>
          (Strip(HeadUnit) = <<>> \/ Strip(HeadUnit) \in WholeFrames)]_vars

-----------------------------------------------------------------------------
(* C25: local errors never interrupt the run.  A frame whose payload is    *)
(* malformed, is well-formed JSON but not a record, or is a record with a  *)
(* missing or unknown message_type leaves the run streaming, and only a    *)
(* transport-level failure moves a run to failed.                          *)

LocalKinds == {"JSONDecodeError", "AttributeError", "unrecognized"}

TransportKinds == RequestErrors \cup PostErrors \cup ReadErrors \cup {"RetryError"}

C25_LocalErrorsAreLocal ==
    [][/\ (ProcessesUnit /\ Classify(HeadUnit).kind \in LocalKinds) =>
             (state' = "streaming" /\ errKind' = "none")
       /\ (state # "failed" /\ state' = "failed") => errKind' \in TransportKinds]_vars

-----------------------------------------------------------------------------
(* C26: the run state machine.  A run moves only along idle -> requesting  *)
(* -> streaming -> {completed | failed} or requesting -> failed (a run the *)
(* caller cancels while it streams is set aside as cancelled); frames are  *)
(* processed and increments handed on only while streaming; completed and  *)
(* failed are never left; and no run delivers both a completion status and *)
(* a terminal error.                                                       *)

Transitions ==
    {<<"idle", "requesting">>, <<"requesting", "streaming">>,
     <<"requesting", "failed">>, <<"streaming", "completed">>,
     <<"streaming", "failed">>, <<"streaming", "cancelled">>}

IsCompletionStatus(e) == IsDoneStatus(e) /\ ~IsErrorEvent(e)

IsTerminalError(e) ==
    \/ IsErrorEvent(e)
    \/ e.to = "caller" /\ e.type = "yield" /\ e.text = ErrorChunk(errKind)

C26_RunStateMachine ==
    [][/\ state' # state => <<state, state'>> \in Transitions
       /\ (classified' # classified \/ Increments' # Increments) =>
             state = "streaming"
       /\ state \in {"completed", "failed"} => state' = state
       /\ ~(/\ \E i \in 1..Len(out') : IsCompletionStatus(out'[i])
            /\ \E j \in 1..Len(out') : IsTerminalError(out'[j]))]_vars

-----------------------------------------------------------------------------
(* C27: with no sink registered a run forwards nothing and is not affected *)
(* by the absence: a step that processes an assistant_message, a           *)
(* usage_statistics, a reasoning_message or a malformed frame raises no    *)
(* error and leaves the run streaming, the answer grows by every non-empty *)
(* assistant content, and the run does not end failed on a frame.          *)

SinkKinds ==
    {"assistant_message", "usage_statistics", "reasoning_message", "JSONDecodeError"}

C27_NoSinkNoEffect ==
    [][~emitter =>
          /\ SinkEvents' = <<>>
          /\ (ProcessesUnit /\ Classify(HeadUnit).kind \in SinkKinds) =>
                /\ state' = "streaming"
                /\ errKind' = "none"
                /\ Len(Answer') = Len(Answer)
                                  + (IF HasContent(Classify(HeadUnit)) THEN 1 ELSE 0)]_vars

-----------------------------------------------------------------------------
(* C28: a frame whose message_type is none of assistant_message,           *)
(* usage_statistics and reasoning_message (or is missing) is never         *)
(* forwarded to the sink and never yields an increment, whatever the       *)
(* display policy: the step that processes it delivers nothing, leaves the *)
(* answer and the run as they are, and writes at most the diagnostic       *)
(* record of the parsed payload, which letta.py writes when its            *)
(* diagnostics are enabled.                                                *)

KnownTypes == {"assistant_message", "usage_statistics", "reasoning_message"}

HasUnknownType(unit) ==
    /\ IsDataFrame(unit)
    /\ ~IsDoneMarker(unit)
    /\ LET j == JsonLoads(Drop(unit, PrefixLen))
       IN j.ok /\ j.isdict /\ j.message_type \notin KnownTypes

C28_UnrecognizedNotForwarded ==
    [][(ProcessesUnit /\ HasUnknownType(HeadUnit)) =>
          /\ out' = out
          /\ Answer' = Answer
          /\ state' = "streaming"
          /\ log' = IF variant = "sync" /\ valves.DEV_MODE /\ valves.LOG_PARSED_CHUNKS
                    THEN LogResponse(log, "parsed_chunk") ELSE log]_vars

C28_Witness ==
    /\ state = "completed"
    /\ \E i \in 1..Len(classified) : classified[i].kind = "unrecognized"
    /\ user_valves.SHOW_USAGE_STATS
    /\ SinkRegistered

-----------------------------------------------------------------------------
(* C29: diagnostic completeness.  With diagnostics enabled, a run that has *)
(* ended has written one record for every frame it classified, parse       *)
(* errors included, and its last record is the one of its terminal status, *)
(* whether it completed or failed.                                         *)

FrameRecords ==
    {"raw_chunk", "parsed_chunk", "parse_error", "assistant_message",
     "usage_stats", "reasoning", "done_marker"}

Count(list, types) == Len(SelectSeq(list, LAMBDA r : r \in types))

DiagnosticsEnabled == valves.DEV_MODE /\ valves.SAVE_RESPONSES

C29_DiagnosticsComplete ==
    (DiagnosticsEnabled /\ state \in {"completed", "failed"}) =>
        /\ Count(log, {"parsed_chunk", "parse_error"}) = Len(classified)
        /\ log # <<>>
        /\ Last(log) \notin FrameRecords

-----------------------------------------------------------------------------
(* C31: a response established with an HTTP error status, 422 or any other *)
(* non-success status, never enters streaming: the run is failed and no    *)
(* part of the body is parsed as frames, so no frame is classified and no  *)
(* increment, usage or reasoning event comes from an error response.       *)

C31_ErrorStatusFails ==
    status \in ErrorStatuses =>
        /\ state = "failed"
        /\ classified = <<>>
        /\ Deliveries = <<>>
        /\ pieces = <<>> /\ buf = <<>>

-----------------------------------------------------------------------------
(* C32: in letta.py every sink event of the generator (usage, reasoning,   *)
(* warning, final status, error) goes through _dev_event.  With DEV_MODE   *)
(* false the sink receives none of them, whatever the display toggles are; *)
(* with DEV_MODE true it receives them subject to the display toggles.     *)
(* As stated, nothing but assistant text increments leaves such a run; as  *)
(* amended, a failed run also hands the caller its error chunk.            *)

Sent(type) == Len(SelectSeq(SinkEvents, LAMBDA e : e.type = type))

Seen(kind) == Len(SelectSeq(classified, LAMBDA f : f.kind = kind))

\* the events of generator(): all but the initial status, which pipe() sends
GeneratorEvents ==
    SelectSeq(SinkEvents, LAMBDA e : ~(e.type = "status" /\ e.text = "processing"))

IfShown(shown, n) == IF valves.DEV_MODE /\ display_events /\ shown THEN n ELSE 0

DevEventGate ==
    /\ ~valves.DEV_MODE => GeneratorEvents = <<>>
    /\ Sent("usage") = IfShown(user_valves.SHOW_USAGE_STATS, Seen("usage_statistics"))
    /\ Sent("reasoning") = IfShown(user_valves.SHOW_REASONING, Seen("reasoning_message"))
    /\ Sent("warning") = IfShown(TRUE, Seen("JSONDecodeError"))
    /\ Sent("error") = IfShown(state = "failed", 1)
    /\ Len(GeneratorEvents) - Sent("usage") - Sent("reasoning") - Sent("warning")
          - Sent("error") = IfShown(state = "completed", 1)

ErrorChunks ==
    SelectSeq(CallerEvents,
              LAMBDA e : e.type = "yield" /\ e.text = ErrorChunk(errKind))

\* the statement as it stands: only assistant text increments leave the run
C32_OnlyIncrementsLeave ==
    variant = "sync" =>
        /\ DevEventGate
        /\ ~valves.DEV_MODE => CallerEvents = Yields

\* the amended statement: a failed run also yields its error chunk
C32_DevEventGate ==
    variant = "sync" =>
        /\ DevEventGate
        /\ Len(Yields) = Len(AssistantFrames)
        /\ Len(ErrorChunks) = (IF state = "failed" THEN 1 ELSE 0)
        /\ Len(CallerEvents) = Len(Yields) + Len(ErrorChunks)

C32_Witness ==
    /\ variant = "sync"
    /\ ~valves.DEV_MODE
    /\ display_events
    /\ user_valves.SHOW_USAGE_STATS
    /\ Seen("usage_statistics") > 0
    /\ state = "failed"

====
